---- MODULE Spec2Model ----
(***************************************************************************)
(* Launch orchestrator of src/main.py: main() reconciles the configuration, *)
(* prepares the dataset cache, fixes the seed policy and starts the         *)
(* workers, either inline or as one process per local accelerator.          *)
(* The orchestrator is sequential: pc names the source line it is about to  *)
(* execute.  Spawned workers run concurrently with it.                      *)
(***************************************************************************)
EXTENDS Integers, Sequences, FiniteSets, TLC

(* ------------------------------ bounds --------------------------------- *)
\* largest accelerator count the host reports
MaxGpus == 3
\* largest --total_nodes given on the command line
MaxNodes == 2
\* how many values at each end of randint's range are drawn
DrawWidth == 1

(* ------------------------- program constants --------------------------- *)
\* --seed default: the "unspecified" sentinel
UnspecifiedSeed == -1
\* random.randint(1, 4096)
SeedLow == 1
SeedHigh == 4096
\* sys.exit(1) after print_help; also the status of an uncaught exception
ExitFailure == 1
\* main() returning normally
ExitSuccess == 0
\* the [:-5] slice that strips ".yaml"
ExtLen == 5

(* ------------------------- Python values ------------------------------- *)
\* an Optional value is a set of at most one element
None == {}
Just(x) == {x}
Get(o) == CHOOSE x \in o : TRUE

\* the nine operating-mode flags of the parser
ModeFlags ==
    {"train", "eval", "save_fake_images", "vis_fake_images", "k_nearest_neighbor",
     "interpolation", "frequency_analysis", "tsne_analysis", "intra_class_fid"}

\* a value tagged with its Python type, for == between values of any type
Str(s) == [type |-> "str", val |-> s]
Obj(o) == [type |-> "object", val |-> o]
PyEq(a, b) == a.type = b.type /\ a.val = b.val
\* x in lst, for a list lst
PyIn(x, lst) == \E i \in DOMAIN lst : PyEq(x, lst[i])

\* random.randint(a, b): a <= N <= b, sampled at both ends of the range
Randint(a, b) == {n \in a..b : n < a + DrawWidth \/ n > b - DrawWidth}

(* ------------------------------ inputs --------------------------------- *)
\* the parsed command line, vars(args)
ArgsOf(modes, seed, tn, ddp, hdf5, sbn, bb, file) ==
    [m \in ModeFlags |-> m \in modes] @@
    [cfg_file |-> file, seed |-> seed, total_nodes |-> tn,
     distributed_data_parallel |-> ddp, load_train_hdf5 |-> hdf5,
     synchronized_bn |-> sbn, eval_backbone |-> bb]

ModeInputs == {{}, {"train"}}
SeedInputs == {UnspecifiedSeed, 0, 42}
BackboneInputs == {"Inception_V3", "VGG"}
\* -cfg c/GAN.yaml, as its characters
CfgFileInputs == {<<"c", "/", "G", "A", "N", ".", "y", "a", "m", "l">>}

ArgInputs ==
    {ArgsOf(m, s, tn, ddp, h, sbn, bb, f) :
        m \in ModeInputs, s \in SeedInputs, tn \in 1..MaxNodes, ddp \in BOOLEAN,
        h \in BOOLEAN, sbn \in BOOLEAN, bb \in BackboneInputs, f \in CfgFileInputs}

\* torch.cuda.device_count() and torch.cuda.current_device() of the host
HostInputs ==
    {h \in [device_count : 0..MaxGpus, current_device : 0..MaxGpus] :
        h.current_device = 0 \/ h.current_device < h.device_count}

\* the DATA section the configuration file gives
DataInputs == {[name |-> "CIFAR10", img_size |-> 32], [name |-> "Tiny_ImageNet", img_size |-> 64]}

\* MISC.no_proc_data: the names of the datasets that get no standard preprocessing
NoProcData == <<"Tiny_ImageNet">>
\* the evaluation backbones the compatibility check accepts
Backbones == {"SwAV", "Inception_V3"}

VARIABLES
    pc,           \* the line main() is about to execute, or "exit"
    args,         \* parser.parse_args()
    host,         \* the accelerators of the host
    file,         \* the contents of the configuration file
    local,        \* the local variables of main(), by name
    cfgs,         \* the Configurations object, by section
    cudnn,        \* torch.backends.cudnn flags
    rng_seed,     \* the seed misc.fix_seed applied to this process
    fs,           \* how often each shared-filesystem step has run
    processes,    \* the list of started Process objects
    inline,       \* the calls of loader.load_worker made in this process
    exit_code,    \* the exit status of the orchestrator
    log,          \* the orchestrator's steps so far, in order
    cfgsAtCheck,  \* cfgs at the moment check_compatability returned
    built         \* what hdf5.make_hdf5 returned

vars == <<pc, args, host, file, local, cfgs, cudnn, rng_seed, fs, processes, inline,
          exit_code, log, cfgsAtCheck, built>>

\* the state after parse_args, for the command lines and hosts considered
InitOf(commandLines, hosts) ==
    /\ pc = "L92"
    /\ args \in commandLines
    /\ host \in hosts
    /\ file \in DataInputs
    /\ local = <<>>
    /\ cfgs = <<>>
    /\ cudnn = [benchmark |-> FALSE, deterministic |-> FALSE]
    /\ rng_seed = None
    /\ fs = [prepare_folder |-> 0, download_data |-> 0, make_hdf5 |-> 0]
    /\ processes = <<>>
    /\ inline = <<>>
    /\ exit_code = None
    /\ log = <<>>
    /\ cfgsAtCheck = None
    /\ built = None

Init == InitOf(ArgInputs, HostInputs)

\* name = value in main(), for each name of bindings
Assign(bindings) == bindings @@ local

\* an uncaught exception, or sys.exit(1)
Abort(event) ==
    /\ pc' = "exit"
    /\ exit_code' = Just(ExitFailure)
    /\ log' = Append(log, event)

(* lines 92-102 *)
\* faulty variant: the last of the nine conjuncts is missing
NoModeSelectedButLast(a) ==
    /\ ~a.train /\ ~a.eval /\ ~a.save_fake_images /\ ~a.vis_fake_images
    /\ ~a.k_nearest_neighbor /\ ~a.interpolation /\ ~a.frequency_analysis
    /\ ~a.tsne_analysis

NoModeSelected(a) ==
    /\ ~a.train /\ ~a.eval /\ ~a.save_fake_images /\ ~a.vis_fake_images
    /\ ~a.k_nearest_neighbor /\ ~a.interpolation /\ ~a.frequency_analysis
    /\ ~a.tsne_analysis /\ ~a.intra_class_fid

UsageCheck ==
    /\ pc = "L92"
    /\ IF NoModeSelected(args)
         THEN Abort("print_help")
         ELSE /\ pc' = "L104"
              /\ UNCHANGED <<exit_code, log>>
    /\ UNCHANGED <<args, host, file, local, cfgs, cudnn, rng_seed, fs, processes, inline,
                   cfgsAtCheck, built>>

(* line 104 *)
DetectDevices ==
    /\ pc = "L104"
    /\ local' = Assign(("gpus_per_node" :> host.device_count) @@
                       ("rank" :> host.current_device))
    /\ pc' = "L106"
    /\ log' = Append(log, "device_count")
    /\ UNCHANGED <<args, host, file, cfgs, cudnn, rng_seed, fs, processes, inline,
                   exit_code, cfgsAtCheck, built>>

(* line 106: config.Configurations(cfg_file) *)
Configurations(data) ==
    [RUN |-> <<>>, DATA |-> data, OPTIMIZATION |-> <<>>, PRE |-> <<>>,
     MISC |-> [no_proc_data |-> NoProcData]]

LoadConfig ==
    /\ pc = "L106"
    /\ cfgs' = Configurations(file)
    /\ pc' = "L107"
    /\ log' = Append(log, "Configurations")
    /\ UNCHANGED <<args, host, file, local, cudnn, rng_seed, fs, processes, inline,
                   exit_code, cfgsAtCheck, built>>

(* line 107: cfgs.update_cfgs(run_cfgs, super="RUN") *)
update_cfgs(c, overrides, super) == [c EXCEPT ![super] = overrides @@ @]

UpdateCfgs ==
    /\ pc = "L107"
    /\ cfgs' = update_cfgs(cfgs, args, "RUN")
    /\ pc' = "L108"
    /\ log' = Append(log, "update_cfgs")
    /\ UNCHANGED <<args, host, file, local, cudnn, rng_seed, fs, processes, inline,
                   exit_code, cfgsAtCheck, built>>

(* line 108 *)
\* faulty variant: the node count is left out
WorldSizeOfNode(gpus, nodes) == gpus

WorldSize(gpus, nodes) == gpus * nodes

SetWorldSize ==
    /\ pc = "L108"
    /\ cfgs' = [cfgs EXCEPT !.OPTIMIZATION =
                   ("world_size" :> WorldSize(local.gpus_per_node, cfgs.RUN.total_nodes)) @@ @]
    /\ pc' = "L109"
    /\ log' = Append(log, "world_size")
    /\ UNCHANGED <<args, host, file, local, cudnn, rng_seed, fs, processes, inline,
                   exit_code, cfgsAtCheck, built>>

(* line 109: cfgs.check_compatability() *)
check_compatability(c) ==
    /\ ~(c.RUN.synchronized_bn /\ c.OPTIMIZATION.world_size = 1)
    /\ c.RUN.eval_backbone \in Backbones

\* faulty variant: the call of check_compatability is left out
CheckCompatabilitySkipped ==
    /\ pc = "L109"
    /\ pc' = "L111"
    /\ UNCHANGED <<args, host, file, local, cfgs, cudnn, rng_seed, fs, processes, inline,
                   exit_code, log, cfgsAtCheck, built>>

CheckCompatability ==
    /\ pc = "L109"
    /\ IF check_compatability(cfgs)
         THEN /\ pc' = "L111"
              /\ log' = Append(log, "check_compatability")
              /\ cfgsAtCheck' = Just(cfgs)
              /\ UNCHANGED exit_code
         ELSE /\ Abort("ConfigError")
              /\ UNCHANGED cfgsAtCheck
    /\ UNCHANGED <<args, host, file, local, cfgs, cudnn, rng_seed, fs, processes, inline,
                   built>>

(* line 25 *)
RUN_NAME_FORMAT == <<"framework", "phase", "timestamp">>

\* s.split("/")[-1]
LastSegment(s) ==
    LET slashes == {i \in 1..Len(s) : s[i] = "/"}
        from == IF slashes = {} THEN 1
                ELSE (CHOOSE i \in slashes : \A j \in slashes : j <= i) + 1
    IN  SubSeq(s, from, Len(s))

\* s[:-5]
StripExt(s) == SubSeq(s, 1, Len(s) - ExtLen)

\* log.make_run_name(format, framework=..., phase=...): every placeholder of the
\* format expanded, the timestamp being the launch time
make_run_name(format, framework, phase) ==
    LET subs == [framework |-> framework, phase |-> <<phase>>, timestamp |-> <<"now">>]
    IN  [i \in DOMAIN format |-> subs[format[i]]]

(* line 111 *)
MakeRunName ==
    /\ pc = "L111"
    /\ local' = Assign("run_name" :>
                       make_run_name(RUN_NAME_FORMAT,
                                     StripExt(LastSegment(cfgs.RUN.cfg_file)), "train"))
    /\ pc' = "L113"
    /\ log' = Append(log, "make_run_name")
    /\ UNCHANGED <<args, host, file, cfgs, cudnn, rng_seed, fs, processes, inline,
                   exit_code, cfgsAtCheck, built>>

(* lines 113-114 *)
NoProc(c) == PyIn(Obj(c.DATA), [i \in DOMAIN c.MISC.no_proc_data |-> Str(c.MISC.no_proc_data[i])])

CropLongEdge(c) == IF NoProc(c) THEN FALSE ELSE TRUE

ResizeSize(c) == IF NoProc(c) THEN None ELSE Just(c.DATA.img_size)

DerivePreprocessing ==
    /\ pc = "L113"
    /\ local' = Assign(("crop_long_edge" :> CropLongEdge(cfgs)) @@
                       ("resize_size" :> ResizeSize(cfgs)))
    /\ pc' = "L115"
    /\ log' = Append(log, "preprocessing")
    /\ UNCHANGED <<args, host, file, cfgs, cudnn, rng_seed, fs, processes, inline,
                   exit_code, cfgsAtCheck, built>>

(* hdf5.make_hdf5(name, img_size, crop_long_edge, resize_size, ...): the outcomes
   of the build: the artifact's path with the preprocessing it realises, either
   the one asked for or none at all, or a failure *)
make_hdf5(name, img_size, crop_long_edge, resize_size) ==
    {[ok |-> TRUE, path |-> <<name, img_size>>, crop_long_edge |-> p[1], resize_size |-> p[2]] :
        p \in {<<crop_long_edge, resize_size>>, <<FALSE, None>>}}
    \cup {[ok |-> FALSE]}

(* lines 115-124 *)
\* faulty variant: a failed build is caught and the run goes on without a cache
MakeHdf5Swallowing ==
    /\ pc = "L115"
    /\ IF cfgs.RUN.load_train_hdf5
         THEN /\ fs' = [fs EXCEPT !.make_hdf5 = @ + 1]
              /\ \E r \in make_hdf5(cfgs.DATA.name, cfgs.DATA.img_size,
                                    local.crop_long_edge, local.resize_size) :
                    IF r.ok
                      THEN /\ local' = Assign(("hdf5_path" :> Just(r.path)) @@
                                              ("crop_long_edge" :> r.crop_long_edge) @@
                                              ("resize_size" :> r.resize_size))
                           /\ built' = Just(r)
                           /\ log' = Append(log, "make_hdf5")
                      ELSE /\ local' = Assign("hdf5_path" :> None)
                           /\ log' = Append(log, "DataPrepError")
                           /\ UNCHANGED built
         ELSE /\ local' = Assign("hdf5_path" :> None)
              /\ log' = Append(log, "no_hdf5")
              /\ UNCHANGED <<fs, built>>
    /\ pc' = "L125"
    /\ UNCHANGED <<args, host, file, cfgs, cudnn, rng_seed, processes, inline, cfgsAtCheck,
                   exit_code>>

(* lines 115-124 *)
MakeHdf5 ==
    /\ pc = "L115"
    /\ IF cfgs.RUN.load_train_hdf5
         THEN /\ fs' = [fs EXCEPT !.make_hdf5 = @ + 1]
              /\ \E r \in make_hdf5(cfgs.DATA.name, cfgs.DATA.img_size,
                                    local.crop_long_edge, local.resize_size) :
                    IF r.ok
                      THEN /\ local' = Assign(("hdf5_path" :> Just(r.path)) @@
                                              ("crop_long_edge" :> r.crop_long_edge) @@
                                              ("resize_size" :> r.resize_size))
                           /\ built' = Just(r)
                           /\ pc' = "L125"
                           /\ log' = Append(log, "make_hdf5")
                           /\ UNCHANGED exit_code
                      ELSE /\ Abort("DataPrepError")
                           /\ UNCHANGED <<local, built>>
         ELSE /\ local' = Assign("hdf5_path" :> None)
              /\ pc' = "L125"
              /\ log' = Append(log, "no_hdf5")
              /\ UNCHANGED <<fs, exit_code, built>>
    /\ UNCHANGED <<args, host, file, cfgs, cudnn, rng_seed, processes, inline, cfgsAtCheck>>

(* line 125 *)
\* faulty variant: the values asked for are stored, not the ones make_hdf5 returned
StoreRequestedPreprocessing ==
    /\ pc = "L125"
    /\ cfgs' = [cfgs EXCEPT !.PRE = ("crop_long_edge" :> CropLongEdge(cfgs)) @@
                                    ("resize_size" :> ResizeSize(cfgs)) @@ @]
    /\ pc' = "L127"
    /\ log' = Append(log, "store_preprocessing")
    /\ UNCHANGED <<args, host, file, local, cudnn, rng_seed, fs, processes, inline,
                   exit_code, cfgsAtCheck, built>>

StorePreprocessing ==
    /\ pc = "L125"
    /\ cfgs' = [cfgs EXCEPT !.PRE = ("crop_long_edge" :> local.crop_long_edge) @@
                                    ("resize_size" :> local.resize_size) @@ @]
    /\ pc' = "L127"
    /\ log' = Append(log, "store_preprocessing")
    /\ UNCHANGED <<args, host, file, local, cudnn, rng_seed, fs, processes, inline,
                   exit_code, cfgsAtCheck, built>>

(* lines 127-131 *)
\* faulty variant: random.randint(0, 4096)
SelectSeedFromZero ==
    /\ pc = "L127"
    /\ IF cfgs.RUN.seed = UnspecifiedSeed
         THEN /\ \E s \in Randint(SeedLow - 1, SeedHigh) :
                    cfgs' = [cfgs EXCEPT !.RUN.seed = s]
              /\ cudnn' = [benchmark |-> TRUE, deterministic |-> FALSE]
         ELSE /\ cudnn' = [benchmark |-> FALSE, deterministic |-> TRUE]
              /\ UNCHANGED cfgs
    /\ pc' = "L132"
    /\ log' = Append(log, "select_seed")
    /\ UNCHANGED <<args, host, file, local, rng_seed, fs, processes, inline, exit_code,
                   cfgsAtCheck, built>>

SelectSeed ==
    /\ pc = "L127"
    /\ IF cfgs.RUN.seed = UnspecifiedSeed
         THEN /\ \E s \in Randint(SeedLow, SeedHigh) : cfgs' = [cfgs EXCEPT !.RUN.seed = s]
              /\ cudnn' = [benchmark |-> TRUE, deterministic |-> FALSE]
         ELSE /\ cudnn' = [benchmark |-> FALSE, deterministic |-> TRUE]
              /\ UNCHANGED cfgs
    /\ pc' = "L132"
    /\ log' = Append(log, "select_seed")
    /\ UNCHANGED <<args, host, file, local, rng_seed, fs, processes, inline, exit_code,
                   cfgsAtCheck, built>>

(* line 132: misc.fix_seed(cfgs.RUN.seed) *)
FixSeed ==
    /\ pc = "L132"
    /\ rng_seed' = Just(cfgs.RUN.seed)
    /\ pc' = "L134"
    /\ log' = Append(log, "fix_seed")
    /\ UNCHANGED <<args, host, file, local, cfgs, cudnn, fs, processes, inline, exit_code,
                   cfgsAtCheck, built>>

(* line 137 *)
\* faulty variant: the world size is not looked at
FanOutIgnoringWorldSize(c) == c.RUN.distributed_data_parallel

FanOut(c) == c.RUN.distributed_data_parallel /\ c.OPTIMIZATION.world_size > 1

(* lines 134-137 *)
\* faulty variant: the folders and the download check come before the test of line 137
ChooseModePreparing ==
    /\ pc = "L134"
    /\ fs' = [fs EXCEPT !.prepare_folder = @ + 1, !.download_data = @ + 1]
    /\ pc' = IF FanOut(cfgs) THEN "L143" ELSE "L150"
    /\ log' = (IF cfgs.OPTIMIZATION.world_size = 1 THEN Append(log, "print_single_gpu")
               ELSE log) \o <<"prepare_folder", "download_data">>
    /\ UNCHANGED <<args, host, file, local, cfgs, cudnn, rng_seed, processes, inline,
                   exit_code, cfgsAtCheck, built>>

ChooseMode ==
    /\ pc = "L134"
    /\ pc' = IF FanOut(cfgs) THEN "L138" ELSE "L150"
    /\ log' = IF cfgs.OPTIMIZATION.world_size = 1 THEN Append(log, "print_single_gpu")
              ELSE log
    /\ UNCHANGED <<args, host, file, local, cfgs, cudnn, rng_seed, fs, processes, inline,
                   exit_code, cfgsAtCheck, built>>

(* lines 138-139 *)
\* faulty variant: misc.prepare_folder is not called
PrepareFolderSkipped ==
    /\ pc = "L138"
    /\ pc' = "L140"
    /\ UNCHANGED <<args, host, file, local, cfgs, cudnn, rng_seed, fs, processes, inline,
                   exit_code, log, cfgsAtCheck, built>>

PrepareFolder ==
    /\ pc = "L138"
    /\ fs' = [fs EXCEPT !.prepare_folder = @ + 1]
    /\ pc' = "L140"
    /\ log' = Append(log, "prepare_folder")
    /\ UNCHANGED <<args, host, file, local, cfgs, cudnn, rng_seed, processes, inline,
                   exit_code, cfgsAtCheck, built>>

(* lines 140-142 *)
DownloadData ==
    /\ pc = "L140"
    /\ fs' = [fs EXCEPT !.download_data = @ + 1]
    /\ processes' = <<>>
    /\ pc' = "L143"
    /\ log' = Append(log, "download_data")
    /\ UNCHANGED <<args, host, file, local, cfgs, cudnn, rng_seed, inline, exit_code,
                   cfgsAtCheck, built>>

\* faulty variant: the world size is passed where gpus_per_node is
WorkerWithWorldSize(local_rank) ==
    [local_rank |-> local_rank, cfgs |-> cfgs,
     gpus_per_node |-> cfgs.OPTIMIZATION.world_size,
     run_name |-> local.run_name, hdf5_path |-> local.hdf5_path, exitcode |-> None]

\* faulty variant: the run name is made anew for every worker, from its rank
WorkerOwnRunName(local_rank) ==
    [local_rank |-> local_rank, cfgs |-> cfgs, gpus_per_node |-> local.gpus_per_node,
     run_name |-> Append(local.run_name, <<local_rank>>),
     hdf5_path |-> local.hdf5_path, exitcode |-> None]

\* the arguments of loader.load_worker, with the worker's exit status
Worker(local_rank) ==
    [local_rank |-> local_rank, cfgs |-> cfgs, gpus_per_node |-> local.gpus_per_node,
     run_name |-> local.run_name, hdf5_path |-> local.hdf5_path, exitcode |-> None]

(* lines 143-146: the head of the loop and one iteration; range(gpus_per_node) yields
   the number of iterations made so far *)
\* faulty variant: range(world_size)
SpawnWorldSize ==
    /\ pc = "L143"
    /\ IF Len(processes) < cfgs.OPTIMIZATION.world_size
         THEN /\ local' = Assign("local_rank" :> Len(processes))
              /\ processes' = Append(processes, Worker(Len(processes)))
              /\ log' = Append(log, "start")
              /\ UNCHANGED pc
         ELSE /\ local' = Assign("joined" :> 0)
              /\ pc' = "L147"
              /\ UNCHANGED <<processes, log>>
    /\ UNCHANGED <<args, host, file, cfgs, cudnn, rng_seed, fs, inline, exit_code,
                   cfgsAtCheck, built>>

\* faulty variant: every worker is given its own seed, seed + local_rank, through cfgs
SpawnReseeding ==
    /\ pc = "L143"
    /\ IF Len(processes) < local.gpus_per_node
         THEN /\ local' = Assign("local_rank" :> Len(processes))
              /\ cfgs' = [cfgs EXCEPT !.RUN.seed = @ + 1]
              /\ processes' = Append(processes, Worker(Len(processes)))
              /\ log' = Append(log, "start")
              /\ UNCHANGED pc
         ELSE /\ local' = Assign("joined" :> 0)
              /\ pc' = "L147"
              /\ UNCHANGED <<processes, log, cfgs>>
    /\ UNCHANGED <<args, host, file, cudnn, rng_seed, fs, inline, exit_code,
                   cfgsAtCheck, built>>

\* faulty variant: the output folders are prepared inside the loop, once per worker
SpawnPreparing ==
    /\ pc = "L143"
    /\ IF Len(processes) < local.gpus_per_node
         THEN /\ local' = Assign("local_rank" :> Len(processes))
              /\ fs' = [fs EXCEPT !.prepare_folder = @ + 1]
              /\ processes' = Append(processes, Worker(Len(processes)))
              /\ log' = log \o <<"prepare_folder", "start">>
              /\ UNCHANGED pc
         ELSE /\ local' = Assign("joined" :> 0)
              /\ pc' = "L147"
              /\ UNCHANGED <<processes, log, fs>>
    /\ UNCHANGED <<args, host, file, cfgs, cudnn, rng_seed, inline, exit_code,
                   cfgsAtCheck, built>>

Spawn ==
    /\ pc = "L143"
    /\ IF Len(processes) < local.gpus_per_node
         THEN /\ local' = Assign("local_rank" :> Len(processes))
              /\ processes' = Append(processes, Worker(Len(processes)))
              /\ log' = Append(log, "start")
              /\ UNCHANGED pc
         ELSE /\ local' = Assign("joined" :> 0)
              /\ pc' = "L147"
              /\ UNCHANGED <<processes, log>>
    /\ UNCHANGED <<args, host, file, cfgs, cudnn, rng_seed, fs, inline, exit_code,
                   cfgsAtCheck, built>>

(* lines 147-148: the head of the loop and one iteration: p.join() returns once p has
   terminated; when the list is exhausted main() returns *)
\* faulty variant: p.join() after the spawn loop, outside any loop: only the last p is joined
JoinLastOnly ==
    /\ pc = "L147"
    /\ processes[Len(processes)].exitcode # None
    /\ pc' = "exit"
    /\ exit_code' = Just(ExitSuccess)
    /\ log' = Append(log, "return")
    /\ local' = Assign("joined" :> Len(processes))
    /\ UNCHANGED <<args, host, file, cfgs, cudnn, rng_seed, fs, processes, inline,
                   cfgsAtCheck, built>>

\* faulty variant: p.join(timeout): the wait for p ends whether or not p has terminated
JoinWithTimeout ==
    /\ pc = "L147"
    /\ IF local.joined < Len(processes)
         THEN /\ local' = Assign("joined" :> local.joined + 1)
              /\ log' = Append(log, "join")
              /\ UNCHANGED <<pc, exit_code>>
         ELSE /\ pc' = "exit"
              /\ exit_code' = Just(ExitSuccess)
              /\ log' = Append(log, "return")
              /\ UNCHANGED local
    /\ UNCHANGED <<args, host, file, cfgs, cudnn, rng_seed, fs, processes, inline,
                   cfgsAtCheck, built>>

Join ==
    /\ pc = "L147"
    /\ IF local.joined < Len(processes)
         THEN /\ processes[local.joined + 1].exitcode # None
              /\ local' = Assign("joined" :> local.joined + 1)
              /\ log' = Append(log, "join")
              /\ UNCHANGED <<pc, exit_code>>
         ELSE /\ pc' = "exit"
              /\ exit_code' = Just(ExitSuccess)
              /\ log' = Append(log, "return")
              /\ UNCHANGED local
    /\ UNCHANGED <<args, host, file, cfgs, cudnn, rng_seed, fs, processes, inline,
                   cfgsAtCheck, built>>

(* lines 150-154: the call *)
RunInline ==
    /\ pc = "L150"
    /\ inline' = Append(inline, Worker(local.rank))
    /\ pc' = "L154"
    /\ log' = Append(log, "load_worker")
    /\ UNCHANGED <<args, host, file, local, cfgs, cudnn, rng_seed, fs, processes,
                   exit_code, cfgsAtCheck, built>>

(* lines 150-154: the call returns, or raises; main() ends the same way *)
InlineReturn ==
    /\ pc = "L154"
    /\ inline[1].exitcode # None
    /\ pc' = "exit"
    /\ exit_code' = inline[1].exitcode
    /\ log' = Append(log, "load_worker_returned")
    /\ UNCHANGED <<args, host, file, local, cfgs, cudnn, rng_seed, fs, processes, inline,
                   cfgsAtCheck, built>>

\* loader.load_worker ends, with status code
Terminated(w, code) == [w EXCEPT !.exitcode = Just(code)]

\* a spawned worker process terminates
ProcessExit(i, code) ==
    /\ i \in DOMAIN processes
    /\ processes[i].exitcode = None
    /\ processes' = [processes EXCEPT ![i] = Terminated(@, code)]
    /\ UNCHANGED <<pc, args, host, file, local, cfgs, cudnn, rng_seed, fs, inline,
                   exit_code, log, cfgsAtCheck, built>>

\* the worker running inline ends
InlineExit(code) ==
    /\ pc = "L154"
    /\ inline[1].exitcode = None
    /\ inline' = [inline EXCEPT ![1] = Terminated(@, code)]
    /\ UNCHANGED <<pc, args, host, file, local, cfgs, cudnn, rng_seed, fs, processes,
                   exit_code, log, cfgsAtCheck, built>>

ExitCodes == {ExitSuccess, ExitFailure}

Next ==
    \/ UsageCheck
    \/ DetectDevices
    \/ LoadConfig
    \/ UpdateCfgs
    \/ SetWorldSize
    \/ CheckCompatability
    \/ MakeRunName
    \/ DerivePreprocessing
    \/ MakeHdf5
    \/ StorePreprocessing
    \/ SelectSeed
    \/ FixSeed
    \/ ChooseMode
    \/ PrepareFolder
    \/ DownloadData
    \/ Spawn
    \/ Join
    \/ RunInline
    \/ InlineReturn
    \/ \E i \in 1..MaxGpus, code \in ExitCodes : ProcessExit(i, code)
    \/ \E code \in ExitCodes : InlineExit(code)

Spec == Init /\ [][Next]_vars

(* ------------------------------ claims --------------------------------- *)
\* the places of event e in the orchestrator's log
Pos(e) == {i \in DOMAIN log : log[i] = e}
Past(e) == Pos(e) # {}
\* every occurrence of b comes after an occurrence of a
Before(a, b) == \A j \in Pos(b) : \E i \in Pos(a) : i < j

ReconcileEvents == {"Configurations", "update_cfgs", "world_size", "check_compatability"}
PrepareEvents == {"preprocessing", "make_hdf5", "no_hdf5", "store_preprocessing"}
StartEvents == {"start", "load_worker"}
\* every worker started so far, spawned or inline
Workers == {processes[i] : i \in DOMAIN processes} \cup {inline[i] : i \in DOMAIN inline}

\* C1: reconciliation (load, overlay, world size, compatibility check) is complete
\* before dataset preparation begins, and dataset preparation is complete before
\* any worker is started, spawned or inline.
C1_ReconcileThenPrepareThenStart ==
    /\ \A r \in ReconcileEvents : \A d \in PrepareEvents : Before(r, d)
    /\ \A d \in {"preprocessing", "store_preprocessing"} : \A w \in StartEvents : Before(d, w)
    /\ \A w \in StartEvents : Pos(w) # {} => Past("make_hdf5") \/ Past("no_hdf5")
    /\ fs.make_hdf5 > 0 => cfgsAtCheck # None
    /\ Workers # {} =>
          /\ \A e \in ReconcileEvents \cup {"preprocessing", "store_preprocessing"} : Past(e)
          /\ fs.make_hdf5 = (IF args.load_train_hdf5 THEN 1 ELSE 0)
          /\ args.load_train_hdf5 => built # None
          /\ DOMAIN cfgs.PRE = {"crop_long_edge", "resize_size"}

C1_Witness ==
    /\ Len(processes) >= 2
    /\ built # None

\* C2: in fan-out mode exactly gpus_per_node processes are started on the node and
\* their local ranks are 0 .. gpus_per_node-1, each once, whatever the node count.
C2_FanOutRanks ==
    /\ (Past("fix_seed") /\ pc # "L134" /\ FanOut(cfgs)) =>
          /\ pc \in {"L138", "L140", "L143", "L147", "exit"}
          /\ inline = <<>>
          /\ Len(processes) <= host.device_count
          /\ pc \in {"L147", "exit"} => Len(processes) = host.device_count
    /\ \A i \in DOMAIN processes : processes[i].local_rank = i - 1

C2_Witness ==
    /\ pc = "exit"
    /\ Len(processes) = 1
    /\ cfgs.RUN.total_nodes >= 2

\* C3: the launcher returns from fan-out only when every spawned worker has
\* terminated, and a worker's failure neither ends the launcher nor touches a sibling.
C3_JoinAll ==
    /\ []((pc = "exit" /\ processes # <<>>) =>
            \A i \in DOMAIN processes : processes[i].exitcode # None)
    /\ [][\A i \in DOMAIN processes :
            (processes[i].exitcode = None /\ processes'[i].exitcode = Just(ExitFailure)) =>
                /\ pc' = pc
                /\ exit_code' = exit_code
                /\ Len(processes') = Len(processes)
                /\ \A j \in DOMAIN processes : j # i => processes'[j] = processes[j]]_vars

C3_Witness ==
    /\ pc = "exit"
    /\ Len(processes) >= 3
    /\ processes[1].exitcode = Just(ExitFailure)
    /\ processes[2].exitcode = Just(ExitSuccess)

\* C4: when a spawned worker exits non-zero, the orchestrator's own exit status is
\* a failure.
C4_AggregateFailure ==
    (pc = "exit" /\ \E i \in DOMAIN processes : processes[i].exitcode = Just(ExitFailure))
        => exit_code # Just(ExitSuccess)

\* C5: without distributed mode, or with world size 1, the worker runs exactly once,
\* inline, with local_rank the current device; no process is spawned; main() ends
\* as the worker did; inline and fan-out never both happen.
C5_Inline ==
    /\ Len(inline) <= 1
    /\ ~(inline # <<>> /\ processes # <<>>)
    /\ (Past("fix_seed") /\ pc # "L134"
            /\ (~args.distributed_data_parallel \/ cfgs.OPTIMIZATION.world_size = 1)) =>
          /\ pc \in {"L150", "L154", "exit"}
          /\ processes = <<>>
          /\ ~Past("start")
          /\ pc # "L150" =>
                /\ Len(inline) = 1
                /\ inline[1].local_rank = host.current_device
          /\ pc = "exit" =>
                /\ inline[1].exitcode # None
                /\ exit_code = inline[1].exitcode

C5_Witness ==
    /\ pc = "exit"
    /\ Len(inline) = 1
    /\ inline[1].local_rank > 0
    /\ exit_code = Just(ExitFailure)

\* C6: the value every worker gets as its third argument is the number of worker
\* processes of the whole run, accelerators per node times total nodes.
C6_WorldSizeArgument ==
    \A w \in Workers : w.gpus_per_node = host.device_count * args.total_nodes

\* C6, amended: the third argument is the accelerator count of this node; the world
\* size reaches the worker in the configuration's OPTIMIZATION section.
C6_GpusPerNodeArgument ==
    \A w \in Workers :
        /\ w.gpus_per_node = host.device_count
        /\ w.cfgs.OPTIMIZATION.world_size = host.device_count * args.total_nodes

C6_Witness ==
    /\ Len(processes) >= 2
    /\ Len(inline) = 0
    /\ args.total_nodes >= 2
    /\ processes[2].gpus_per_node # processes[2].cfgs.OPTIMIZATION.world_size

\* the dataset's name is one of the names of MISC.no_proc_data
NameListed(c) == \E i \in DOMAIN c.MISC.no_proc_data : c.MISC.no_proc_data[i] = c.DATA.name

\* C7: a dataset whose name is in the no-standard-preprocessing set gets
\* crop_long_edge = False and resize_size = None, every other dataset
\* crop_long_edge = True and resize_size = img_size.
C7_DenylistByName ==
    pc = "L115" =>
        /\ local.crop_long_edge = ~NameListed(cfgs)
        /\ local.resize_size = (IF NameListed(cfgs) THEN None ELSE Just(cfgs.DATA.img_size))

\* C8: after the compatibility check has passed the configuration is never written.
C8_FrozenAfterCheck ==
    cfgsAtCheck # None => cfgs = Get(cfgsAtCheck)

\* c is d but for PRE.crop_long_edge, PRE.resize_size and a drawn RUN.seed
SameButPreAndSeed(c, d) ==
    /\ c.DATA = d.DATA
    /\ c.OPTIMIZATION = d.OPTIMIZATION
    /\ c.MISC = d.MISC
    /\ DOMAIN c.RUN = DOMAIN d.RUN
    /\ \A k \in DOMAIN d.RUN : k # "seed" => c.RUN[k] = d.RUN[k]
    /\ d.RUN.seed # UnspecifiedSeed => c.RUN.seed = d.RUN.seed
    /\ DOMAIN c.PRE \subseteq {"crop_long_edge", "resize_size"}

\* C8, amended: after the compatibility check has passed, the only fields written are
\* PRE.crop_long_edge, PRE.resize_size and, when the seed was unspecified, RUN.seed;
\* once the seed is selected nothing is written, and every worker receives that
\* configuration.
C8_FrozenAfterSeed ==
    /\ [](cfgsAtCheck # None => SameButPreAndSeed(cfgs, Get(cfgsAtCheck)))
    /\ [][Past("select_seed") => cfgs' = cfgs]_vars
    /\ [](\A w \in Workers : w.cfgs = cfgs)

C8_Witness ==
    /\ Len(processes) >= 2
    /\ cfgs.RUN.seed # Get(cfgsAtCheck).RUN.seed
    /\ cfgs.PRE # Get(cfgsAtCheck).PRE

\* C9: without -hdf5 the builder is not called, hdf5_path is None and the two
\* parameters are the ones derived at lines 113-114; with -hdf5 the builder is called
\* once and all three values are the ones it returned; cfgs.PRE holds the two
\* parameters either way, and so does every worker's configuration.
C9_DatasetGate ==
    /\ fs.make_hdf5 <= 1
    /\ Past("store_preprocessing") =>
          /\ IF args.load_train_hdf5
               THEN /\ fs.make_hdf5 = 1
                    /\ built # None
                    /\ local.hdf5_path = Just(Get(built).path)
                    /\ local.crop_long_edge = Get(built).crop_long_edge
                    /\ local.resize_size = Get(built).resize_size
               ELSE /\ fs.make_hdf5 = 0
                    /\ built = None
                    /\ local.hdf5_path = None
                    /\ local.crop_long_edge = CropLongEdge(cfgs)
                    /\ local.resize_size = ResizeSize(cfgs)
          /\ cfgs.PRE.crop_long_edge = local.crop_long_edge
          /\ cfgs.PRE.resize_size = local.resize_size
          /\ \A w \in Workers :
                /\ w.cfgs.PRE = cfgs.PRE
                /\ w.hdf5_path = local.hdf5_path

C9_Witness ==
    /\ Workers # {}
    /\ built # None
    /\ Get(built).crop_long_edge # CropLongEdge(cfgs)
    /\ cfgs.PRE.resize_size = None

\* C10: an unspecified seed becomes one of 1..4096 with benchmark on and
\* deterministic off; any other seed is kept, with benchmark off and deterministic
\* on; exactly one of the two flags is on; a worker starts only after the seed, never
\* the sentinel, has been applied.
C10_SeedPolicy ==
    /\ Past("select_seed") =>
          /\ IF args.seed = UnspecifiedSeed
               THEN /\ cfgs.RUN.seed \in SeedLow..SeedHigh
                    /\ cudnn = [benchmark |-> TRUE, deterministic |-> FALSE]
               ELSE /\ cfgs.RUN.seed = args.seed
                    /\ cudnn = [benchmark |-> FALSE, deterministic |-> TRUE]
          /\ cudnn.benchmark # cudnn.deterministic
    /\ Workers # {} =>
          /\ Past("select_seed")
          /\ rng_seed = Just(cfgs.RUN.seed)
          /\ \A w \in Workers :
                /\ w.cfgs.RUN.seed # UnspecifiedSeed
                /\ Just(w.cfgs.RUN.seed) = rng_seed

C10_Witness ==
    /\ Workers # {}
    /\ args.seed = UnspecifiedSeed
    /\ cfgs.RUN.seed = SeedHigh

(* the usage check, for each operating-mode flag alone, for none and for all of
   them, on hosts with at most one accelerator *)
UsageModeInputs == {{}, ModeFlags} \cup {{m} : m \in ModeFlags}

InitUsage ==
    InitOf({ArgsOf(m, UnspecifiedSeed, tn, ddp, h, FALSE, bb, f) :
               m \in UsageModeInputs, tn \in 1..MaxNodes, ddp \in BOOLEAN,
               h \in BOOLEAN, bb \in BackboneInputs, f \in CfgFileInputs},
           {h \in HostInputs : h.device_count <= 1})

SpecUsage == InitUsage /\ [][Next]_vars

AnyModeSelected == \E f \in ModeFlags : args[f]

\* C11: with none of the nine operating-mode flags the program prints help and
\* exits 1, having read no accelerator count, built no configuration, prepared no
\* dataset and started no worker; with at least one flag there is no usage error.
C11_UsageError ==
    /\ (~AnyModeSelected /\ pc # "L92") =>
          /\ pc = "exit"
          /\ exit_code = Just(ExitFailure)
          /\ log = <<"print_help">>
          /\ local = <<>>
          /\ cfgs = <<>>
          /\ fs = [prepare_folder |-> 0, download_data |-> 0, make_hdf5 |-> 0]
          /\ Workers = {}
    /\ AnyModeSelected =>
          /\ ~Past("print_help")
          /\ pc \notin {"L92", "L104"} => Past("device_count")

C11_Witness ==
    /\ pc = "exit"
    /\ log = <<"print_help">>
    /\ exit_code = Just(ExitFailure)

\* the run has ended with a failure raised before any worker was started
FailedBeforeSpawn(event) ==
    /\ pc = "exit"
    /\ exit_code = Just(ExitFailure)
    /\ log[Len(log)] = event
    /\ Cardinality(Pos(event)) = 1
    /\ Workers = {}
    /\ ~Past("start") /\ ~Past("load_worker")
    /\ fs.prepare_folder = 0 /\ fs.download_data = 0

\* C12: a failed compatibility check ends the run with a failure before dataset
\* preparation is attempted; a failed cache build ends it with a failure before any
\* fan-out precondition and before any worker; nothing is tried a second time.
C12_FatalBeforeSpawn ==
    /\ (Past("world_size") /\ pc # "L109" /\ ~check_compatability(cfgs)) => Past("ConfigError")
    /\ Past("ConfigError") =>
          /\ FailedBeforeSpawn("ConfigError")
          /\ \A d \in PrepareEvents : ~Past(d)
          /\ fs.make_hdf5 = 0
          /\ built = None
          /\ Cardinality(Pos("world_size")) = 1
    /\ Past("DataPrepError") =>
          /\ FailedBeforeSpawn("DataPrepError")
          /\ fs.make_hdf5 = 1
          /\ built = None
          /\ ~Past("make_hdf5")
    /\ (pc = "exit" /\ exit_code = Just(ExitSuccess)) => ~Past("ConfigError") /\ ~Past("DataPrepError")

C12_Witness ==
    /\ Past("DataPrepError")
    /\ args.distributed_data_parallel
    /\ cfgs.OPTIMIZATION.world_size > 1

C14_FoldersInEveryRun ==
    Workers # {} =>
        /\ fs.prepare_folder = 1
        /\ \A w \in StartEvents : Before("prepare_folder", w)

\* C14, amended: in fan-out mode the orchestrator creates the output directory tree
\* exactly once, before the first worker process is started; in inline mode the
\* orchestrator does not create it.
C14_FoldersInFanOut ==
    /\ fs.prepare_folder <= 1
    /\ Cardinality(Pos("prepare_folder")) = fs.prepare_folder
    /\ processes # <<>> =>
          /\ fs.prepare_folder = 1
          /\ Before("prepare_folder", "start")
          /\ \A i \in Pos("prepare_folder") : \A j \in Pos("start") : i < j
    /\ (inline # <<>> \/ pc \in {"L150", "L154"}) => fs.prepare_folder = 0

C14_Witness ==
    /\ pc = "exit"
    /\ Len(inline) = 1
    /\ fs.prepare_folder = 0
    /\ exit_code = Just(ExitSuccess)

\* C15: from line 108 on, OPTIMIZATION.world_size is the detected accelerator count
\* times --total_nodes, for every count from 0 up and every node count, and it is
\* there when the compatibility check runs.
C15_WorldSizeStored ==
    /\ Past("world_size") =>
          /\ DOMAIN cfgs.OPTIMIZATION = {"world_size"}
          /\ cfgs.OPTIMIZATION.world_size = host.device_count * args.total_nodes
          /\ \A w \in Workers :
                w.cfgs.OPTIMIZATION.world_size = host.device_count * args.total_nodes
    /\ pc = "L109" => Past("world_size")
    /\ Before("world_size", "check_compatability")
    /\ Before("world_size", "ConfigError")

C15_Witness ==
    /\ Past("check_compatability")
    /\ host.device_count = MaxGpus
    /\ args.total_nodes = MaxNodes
    /\ cfgs.OPTIMIZATION.world_size = MaxGpus * MaxNodes

FanOutPreconditions == {"prepare_folder", "download_data"}

\* C16: in fan-out mode the output folders are created and the dataset is made
\* available once each, by the orchestrator, both before the first process is
\* started and never again afterwards.
C16_PreconditionsOnce ==
    /\ fs.prepare_folder = Cardinality(Pos("prepare_folder"))
    /\ fs.download_data = Cardinality(Pos("download_data"))
    /\ fs.prepare_folder <= 1 /\ fs.download_data <= 1
    /\ \A e \in FanOutPreconditions : \A i \in Pos(e) : \A j \in Pos("start") : i < j
    /\ (pc \in {"L143", "L147"} \/ processes # <<>>) =>
          /\ fs.prepare_folder = 1
          /\ fs.download_data = 1

C16_Witness ==
    /\ Len(processes) = MaxGpus
    /\ pc = "L147"
    /\ fs.prepare_folder = 1
    /\ fs.download_data = 1

\* what a worker was started with, but for its local rank
SharedContext(w) ==
    [cfgs |-> w.cfgs, gpus_per_node |-> w.gpus_per_node, run_name |-> w.run_name,
     hdf5_path |-> w.hdf5_path]

\* C17: all workers of a run are started with the same configuration (seed and
\* preprocessing parameters included), the same run name and the same cache path,
\* the ones main() holds; two workers differ in their local rank only.
C17_SameContext ==
    /\ \A v, w \in Workers : SharedContext(v) = SharedContext(w)
    /\ \A w \in Workers :
          SharedContext(w) = [cfgs |-> cfgs, gpus_per_node |-> local.gpus_per_node,
                              run_name |-> local.run_name, hdf5_path |-> local.hdf5_path]
    /\ \A i, j \in DOMAIN processes : i # j => processes[i].local_rank # processes[j].local_rank

C17_Witness ==
    /\ Len(processes) = MaxGpus
    /\ args.seed = UnspecifiedSeed
    /\ built # None
    /\ processes[1].exitcode # None
    /\ processes[MaxGpus].exitcode = None

(* The launcher under its scheduling: main() is one sequential thread of a running
   process, so whichever of its statements can be executed is executed; a blocking
   p.join() returns once p has terminated. Nothing makes a worker terminate. *)
MainStep ==
    \/ UsageCheck
    \/ DetectDevices
    \/ LoadConfig
    \/ UpdateCfgs
    \/ SetWorldSize
    \/ CheckCompatability
    \/ MakeRunName
    \/ DerivePreprocessing
    \/ MakeHdf5
    \/ StorePreprocessing
    \/ SelectSeed
    \/ FixSeed
    \/ ChooseMode
    \/ PrepareFolder
    \/ DownloadData
    \/ Spawn
    \/ Join
    \/ RunInline
    \/ InlineReturn

InitLive ==
    InitOf({ArgsOf(m, 42, tn, ddp, h, FALSE, bb, f) :
               m \in ModeInputs, tn \in 1..MaxNodes, ddp \in BOOLEAN,
               h \in BOOLEAN, bb \in BackboneInputs, f \in CfgFileInputs},
           HostInputs)

SpecLive == InitLive /\ [][Next]_vars /\ WF_vars(MainStep)

InFanOut == pc \in {"L138", "L140", "L143", "L147"}

Spawned(i) == i \in DOMAIN processes

Running(i) == Spawned(i) /\ processes[i].exitcode = None

SomeRunning == \E i \in DOMAIN processes : Running(i)

\* C18: in fan-out mode, if every spawned worker eventually terminates, main()
\* eventually returns; if some spawned worker never terminates, main() never returns.
\* (A worker that has terminated stays so and the workers are finitely many: every
\* worker terminates iff again and again none is running, and some worker never
\* terminates iff from some point on one is always running.)
C18_JoinLiveness ==
    /\ []<>(~SomeRunning) => [](InFanOut => <>(pc = "exit"))
    /\ <>[]SomeRunning => [](pc # "exit")

C18_Witness ==
    /\ pc = "L147"
    /\ Len(processes) = MaxGpus
    /\ local.joined = 1
    /\ Running(2)
    /\ ~Running(MaxGpus)

OnInlinePath == pc \in {"L150", "L154"} \/ inline # <<>>

\* C19: when --load_train_hdf5 is given, make_hdf5 has returned before
\* download_data_if_possible and before prepare_folder are called; main() calls these
\* two on the fan-out path only, never on the path that runs the worker inline.
C19_DatasetStepsOrder ==
    /\ \A e \in FanOutPreconditions :
          Past(e) => /\ args.load_train_hdf5 => built # None /\ Before("make_hdf5", e)
                     /\ FanOut(cfgs)
                     /\ ~OnInlinePath
    /\ OnInlinePath => /\ fs.prepare_folder = 0 /\ fs.download_data = 0
                       /\ \A e \in FanOutPreconditions : ~Past(e)

C19_Witness ==
    /\ pc = "L143"
    /\ processes = <<>>
    /\ Past("download_data")
    /\ Past("make_hdf5")
    /\ fs.make_hdf5 = 1
====
